---------------------------- MODULE Spec2Model ----------------------------
(***************************************************************************)
(* RLDP (src/src/lib.rs): the receive transfer, the send transfer, the     *)
(* per-peer admission of queries, the transfer registry with its           *)
(* dispatcher and the query/answer driver.                                 *)
(*                                                                         *)
(* Sizes are counted in symbols: one symbol carries SYMBOL units of data,  *)
(* and SLICE, SYMBOL and WINDOW are the program's constants scaled down so *)
(* that multi-part messages and a full window fit the checked bounds.      *)
(* The message M of a transfer of length L is the sequence 0, 1, .., L-1,  *)
(* so every unit of M is different from every other one.                   *)
(* The clock counts in units of SPINNER; TIMEOUT_MIN and TIMEOUT_MAX are   *)
(* scaled down with it, and a timer fires at the instant it is due.        *)
(* A transfer id is ID_BYTES bytes where its bytes matter (SpecIds) and a  *)
(* small number with its complement elsewhere.                             *)
(***************************************************************************)
EXTENDS Integers, Sequences, FiniteSets, TLC

\* ------------------------------------------------------------------ bounds
MaxLen == 4        \* longest message, in units
MaxSeqno == 4      \* largest encoding symbol id put on the wire
MaxPart == 1       \* largest part index the peer puts in a Complete or Confirm
MaxForgedPart == 1 \* largest part index a forged MessagePart carries
MaxForgedSize == 2 \* largest total_size a forged MessagePart carries
MaxForged == 1     \* largest symbol id a forged MessagePart carries
MaxSeen == 20      \* symbols a receive transfer accepts in a part, slice pending
NQueries == 5      \* query calls issued to one peer
LossPeriod == 3    \* the lossy transport drops every LossPeriod-th MessagePart
MaxInFlight == 2   \* MessageParts the lossy transport holds at a time
MaxTime == 7       \* last instant of the clock, in units of SPINNER
MaxUpdates == 1    \* times the peer makes a transfer progress in one phase
MaxQueue == 1      \* MessageParts queued to one receive transfer
MaxAnswer == 1     \* largest answer.data.len() and largest max_answer_size

\* The dispatcher invocations that can be inside set_seqno_recv at the same
\* time: two, which is what a race between two Confirms takes.
Handlers == {1, 2}

\* The transfer ids in use: 1 and 2, and 3 and 4, are each other's
\* complement (every byte xor 0xFF). The peer opens its transfer on 1, the
\* local query call draws 3.
Ids == {1, 2, 3, 4}
PeerIds == {1}
QueryTransferId == 3

\* The query ids an Answer can carry, and the one the query call draws.
QueryIds == {1, 2}
QueryId == 1

\* ------------------------------------------------- program constants
SLICE == 2         \* SendTransfer::SLICE (2000000), scaled
SYMBOL == 1        \* SendTransfer::SYMBOL (768), scaled
WINDOW == 2        \* SendTransfer::WINDOW (1000), scaled
CONFIRM_AT == 9    \* process_chunk: confirm_count == 9
MAX_QUERIES == 3   \* RldpNode::MAX_QUERIES
SPINNER == 1       \* RldpNode::SPINNER (10 ms), the unit of the clock
TIMEOUT_MIN == 1   \* RldpNode::TIMEOUT_MIN (500 ms), scaled
TIMEOUT_MAX == 2   \* RldpNode::TIMEOUT_MAX (10000 ms), scaled
ID_BYTES == 2      \* the bytes of a TransferId ([u8; 32]), scaled
SIZE_TRANSFER_WAVE == 10

VARIABLES
    msgLen,      \* data.len() of the message M the send transfer carries
    recv,        \* RecvTransfer: data, total_size, part, decoder, confirm_count
    lastOut,     \* SpecRecv: what the last process_chunk call returned
    send,        \* SendTransferState: part, reply, seqno_sent, seqno_recv
    enc,         \* SendTransfer.encoder (RaptorqEncoder)
    env,         \* SendTransfer.message, the reusable MessagePart envelope
    sl,          \* send_loop: position and locals
    hs,          \* dispatcher invocations handling a Confirm, with their locals
    net,         \* MessageParts handed to the transport
    replies,     \* Confirm and Complete datagrams handed to the transport
    nsent,       \* MessageParts handed to the lossy transport, mod LossPeriod
    queries,     \* RldpPeer.queries of one remote peer
    queue,       \* RldpPeer.queue: the rendezvous of the waiting queries
    adm,         \* per query call to that peer: where it is in query_transfer
    barrier,     \* per query call: arrivals at the rendezvous it created
    now,         \* the clock
    reg,         \* RldpNode.transfers: per transfer id its entry
    rq,          \* per transfer id: MessageParts queued to its receive loop
    rt,          \* per transfer id: the task answer_transfer spawned for it
    ceil,        \* per transfer id: when its ceiling task fires
    qs,          \* the local query call: where it is and its locals
    disp,        \* the replies the dispatcher sent for the last MessagePart
    tid,         \* the transfer ids of one query, the querier's and the peer's
    seen,        \* SpecRecv: symbols accepted in the current part, slice pending
    dp,          \* dispatcher invocations handling a MessagePart, with locals
    owner        \* per transfer id: the peers its receive context was made with

recvVars == <<recv, lastOut>>
sendVars == <<send, enc, env, sl, hs>>
wireVars == <<net, replies, nsent>>
xferVars ==
    <<msgLen, recv, lastOut, send, enc, env, sl, hs, net, replies, nsent>>
admVars == <<queries, queue, adm, barrier>>
regVars == <<now, reg, rq, rt, ceil, qs, disp>>
auxVars == <<tid, seen, dp, owner>>
vars == <<xferVars, admVars, regVars, auxVars>>

\* ------------------------------------------------------------ the codec
Junk == -1
NoSize == -1

Min(a, b) == IF a < b THEN a ELSE b
Max(a, b) == IF a > b THEN a ELSE b

\* Number of source symbols of a slice of data_size units
\* (raptorq's with_defaults(data_size, symbol_size)).
SymbolsOf(data_size) == (data_size + SYMBOL - 1) \div SYMBOL

\* Size of slice `part` of a message of `total` units (start_next_part).
SliceSize(total, part) ==
    IF part * SLICE >= total THEN 0 ELSE Min(total - part * SLICE, SLICE)

\* The encoding symbol `id` of slice `part` of M, as the payload of a packet:
\* a tag naming the slice of M and the symbol id it was encoded from.
Symbol(part, id) == <<part, id>>
JunkSymbol == <<Junk, Junk>>

\* The unit of M a source symbol carries; Junk for anything else.
UnitOf(total, tag, k) ==
    IF tag[1] # Junk /\ SymbolsOf(SliceSize(total, tag[1])) = k /\ tag[2] < k
    THEN tag[1] * SLICE + tag[2]
    ELSE Junk

NoDecoder == [present |-> FALSE, data_size |-> 0, symbols_count |-> 0,
              seqno |-> 0, syms |-> {}]

\* RaptorqDecoder::with_params
with_params(data_size, symbols_count) ==
    [present |-> TRUE, data_size |-> data_size, symbols_count |-> symbols_count,
     seqno |-> 0, syms |-> {}]

\* The engine keeps the first symbol it receives under every id.
EngineAdd(syms, id, tag) ==
    IF \E s \in syms : s[1] = id THEN syms ELSE syms \cup {<<id, tag>>}

\* The slice the engine reconstructs, once it holds as many symbols as the
\* slice has source symbols: a source position it holds is copied from the
\* symbol received under that id; the others are solved from the symbols it
\* holds, which gives the units of M only when they all encode one slice of
\* M with this decoder's number of source symbols.
Coherent(total, syms, k) ==
    \E q \in 0..MaxPart :
        /\ SymbolsOf(SliceSize(total, q)) = k
        /\ \A s \in syms : s[2][1] = q

EngineSlice(total, syms, k) ==
    [i \in 1..k |->
        IF \E s \in syms : s[1] = i - 1
        THEN UnitOf(total, (CHOOSE s \in syms : s[1] = i - 1)[2], k)
        ELSE IF Coherent(total, syms, k)
             THEN (CHOOSE s \in syms : TRUE)[2][1] * SLICE + (i - 1)
             ELSE Junk]

\* RaptorqDecoder::decode: remembers seqno, feeds the engine; <<>> is None.
decode(total, dec, seqno, tag) ==
    LET syms == EngineAdd(dec.syms, seqno, tag)
        k == SymbolsOf(dec.data_size)
    IN  [dec |-> [dec EXCEPT !.seqno = seqno, !.syms = syms],
         some |-> Cardinality(syms) >= k,
         data |-> IF Cardinality(syms) >= k THEN EngineSlice(total, syms, k)
                  ELSE <<>>]

\* ------------------------------------------------- the receive transfer
\* RecvTransfer::new
RecvTransfer_new ==
    [data |-> <<>>, total_size |-> NoSize, part |-> 0,
     decoder |-> NoDecoder, confirm_count |-> 0]

NoReply == [kind |-> "none", part |-> 0, seqno |-> 0]
Complete(part) == [kind |-> "complete", part |-> part, seqno |-> 0]
Confirm(part, seqno) == [kind |-> "confirm", part |-> part, seqno |-> seqno]

\* What process_chunk returns: the transfer after the call, the error it
\* failed with ("ok" when it did not fail) and the reply.
Out(st, err, reply) == [st |-> st, err |-> err, reply |-> reply]
Ok == "ok"
BadFec == "Unsupported FEC type in RLDP packet"
BadTotal == "Incorrect total size in RLDP packet"
BadParams == "Incorrect parameters in RLDP packet"
TooBig == "Too big size for RLDP transfer"

\* A test that lets the count reach CONFIRM_AT + 1 before the Confirm.
confirm_due_late(count) == count = CONFIRM_AT + 1

\* process_chunk, line 161: self.confirm_count == 9
confirm_due(count) == count = CONFIRM_AT

\* RecvTransfer::process_chunk, from the decoder on: `r` has total_size set.
feed_symbol(total, r, m, dec) ==
    LET d == decode(total, dec, m.seqno, m.data)
        r1 == [r EXCEPT !.decoder = d.dec]
    IN  IF d.some
        THEN IF Len(d.data) + Len(r.data) > r1.total_size
             THEN Out(r1, TooBig, NoReply)
             ELSE LET r2 == [r1 EXCEPT !.data = r.data \o d.data]
                  IN  IF Len(r2.data) < r2.total_size
                      THEN Out([r2 EXCEPT !.decoder = NoDecoder,
                                          !.part = r.part + 1,
                                          !.confirm_count = 0],
                               Ok, Complete(m.part))
                      ELSE Out(r2, Ok, Complete(m.part))
        ELSE IF confirm_due(r.confirm_count)
             THEN Out([r1 EXCEPT !.confirm_count = 0], Ok,
                      Confirm(m.part, d.dec.seqno))
             ELSE Out([r1 EXCEPT !.confirm_count = r.confirm_count + 1],
                      Ok, NoReply)

\* A total_size test that lets every packet through.
total_size_any(r, m) == TRUE

\* process_chunk, lines 115-118: the packet's total_size is the recorded one
total_size_ok(r, m) == r.total_size = NoSize \/ r.total_size = m.total_size

\* RecvTransfer::process_chunk
process_chunk(total, r, m) ==
    IF m.fec # "raptorq" THEN Out(r, BadFec, NoReply)
    ELSE IF ~total_size_ok(r, m)
    THEN Out(r, BadTotal, NoReply)
    ELSE LET r0 == [r EXCEPT !.total_size = m.total_size]
         IN  IF r0.decoder.present
             THEN IF r0.part = m.part
                  THEN IF m.data_size # r0.decoder.data_size
                          \/ m.symbols_count # r0.decoder.symbols_count
                       THEN Out(r0, BadParams, NoReply)
                       ELSE feed_symbol(total, r0, m, r0.decoder)
                  ELSE IF r0.part > m.part
                       THEN Out(r0, Ok, Complete(m.part))
                       ELSE Out(r0, Ok, NoReply)
             ELSE feed_symbol(total, r0, m,
                              with_params(m.data_size, m.symbols_count))

\* ----------------------------------------------------------- the packets
MessagePart(fec, data_size, symbols_count, part, total_size, seqno, data) ==
    [fec |-> fec, data_size |-> data_size, symbols_count |-> symbols_count,
     part |-> part, total_size |-> total_size, seqno |-> seqno, data |-> data]

NoOut == [err |-> "none", reply |-> NoReply]

\* Every MessagePart a peer can put on the wire, within the bounds, and
\* the MessageParts of part 0 that announce a slice of SLICE + 1 symbols,
\* which process_chunk takes as it takes any data_size.
AnyPacket ==
    { MessagePart("raptorq", ds, ds, p, t, s, JunkSymbol) :
        ds \in 1..SLICE, p \in 0..MaxForgedPart, t \in 1..MaxForgedSize,
        s \in 0..MaxForged }
    \cup { MessagePart("raptorq", SLICE + 1, SLICE + 1, 0, t, s, JunkSymbol) :
             t \in 1..MaxForgedSize, s \in 0..SLICE }
    \cup { MessagePart("other", 1, 1, 0, 1, 0, JunkSymbol) }

\* ------------------------------------------ per-peer admission: state
Queries == 1..NQueries

\* A query call: its position in query_transfer, whether it had to wait at
\* the gate, and the rendezvous it popped on its way out (0: none).
Query_new == [pc |-> "enter", waited |-> FALSE, popped |-> 0]

InitAdmission ==
    /\ queries = 0
    /\ queue = <<>>
    /\ adm = [i \in Queries |-> Query_new]
    /\ barrier = [i \in Queries |-> 0]

\* ---------------------------------------------- the registry: state
\* The complement of a transfer id (every byte xor 0xFF).
Comp(id) == IF id % 2 = 1 THEN id + 1 ELSE id - 1

\* Option::None for a roundtrip hint, a timer and a transfer id.
NoHint == -1
NoTimer == -1
NoId == 0

\* A registry entry: RldpTransfer::Recv, Send or Done, or no entry, and
\* the instant the id was put in the registry.
Entry(kind, born) == [kind |-> kind, born |-> born]
Vacant == Entry("none", 0)

\* A send_loop seen from the clock: its timeout, roundtrip and start_part,
\* and how often the peer made it progress.
Phase(timeout, roundtrip, since) ==
    [timeout |-> timeout, roundtrip |-> roundtrip, since |-> since,
     updates |-> 0]
NoPhase == Phase(0, 0, 0)

\* The task of answer_transfer for a transfer id.
NoTask == [pc |-> "none", full |-> FALSE, send_id |-> NoId, due |-> NoTimer,
           ph |-> NoPhase, outcome |-> "none"]

\* An outcome of the query call.
Result(kind, data) == [kind |-> kind, data |-> data]
NoResult == Result("none", <<>>)

\* A payload assembled on the paired receive transfer.
Payload(kind, query_id, data) ==
    [kind |-> kind, query_id |-> query_id, data |-> data]
NoPayload == Payload("none", 0, <<>>)

NoQuery == [pc |-> "idle", rloop |-> "off", res |-> "none",
            payload |-> NoPayload, due |-> NoTimer, ph |-> NoPhase,
            result |-> NoResult]

NoDispatch == <<>>

InitRegistry ==
    /\ now = 0
    /\ reg = [id \in Ids |-> Vacant]
    /\ rq = [id \in Ids |-> 0]
    /\ rt = [id \in Ids |-> NoTask]
    /\ ceil = [id \in Ids |-> NoTimer]
    /\ qs = NoQuery
    /\ disp = NoDispatch

\* ------------------------------------------------- transfer ids: state
\* A TransferId is ID_BYTES bytes. Of one query: the id the querier drew for
\* its send transfer, the id it registered its receive transfer under, the
\* id of the request as the responder got it (context.transfer_id), and the
\* id the responder sends the answer under; <<>> is an id not yet made.
NoTransferId == <<>>
NoIds == [q_send |-> NoTransferId, q_recv |-> NoTransferId,
          a_ctx |-> NoTransferId, a_send |-> NoTransferId]

\* The peers the transport delivers datagrams from; NoPeer for no peer.
Peers == {"A", "B"}
NoPeer == "none"

\* The dispatcher invocations that can handle a MessagePart at the same
\* time: two, which is what a race on one transfer id takes.
Dispatchers == {1, 2}

\* A dispatcher invocation in the MessagePart branch: where it is in the
\* loop, its packet, the peer the packet came from, and how often it took
\* `continue`.
NoPart == [id |-> NoId, part |-> 0, seqno |-> 0]
Resting == [pc |-> "idle", m |-> NoPart, from |-> NoPeer, spins |-> 0]

InitIds ==
    /\ tid = NoIds /\ seen = 0
    /\ dp = [d \in Dispatchers |-> Resting]
    /\ owner = [id \in Ids |-> NoPeer]

\* --------------------------------------------------- the send transfer
\* The modulus of the u32 counters, scaled to the integers of TLC:
\* it is above every counter of the model and above WINDOW, as 2^32 is.
U32 == 2^30

\* SendTransfer::new: the shared SendTransferState
SendTransferState_new ==
    [part |-> 0, reply |-> FALSE, seqno_sent |-> 0, seqno_recv |-> 0]

NoEncoder == [present |-> FALSE, data_size |-> 0, symbols_count |-> 0,
              src_left |-> 0]

\* SendTransfer::new: the envelope
Envelope_new == [part |-> 0, total_size |-> 0, data_size |-> 0,
                 symbols_count |-> 0]

\* RaptorqEncoder::with_data over a slice of data_size units
with_data(data_size) ==
    [present |-> TRUE, data_size |-> data_size,
     symbols_count |-> SymbolsOf(data_size), src_left |-> SymbolsOf(data_size)]

\* RaptorqEncoder::encode: the next source packet while one is left (they
\* are popped in the order of their ids), else one repair packet asked from
\* the engine with the caller's seqno, whose id the engine sets to the
\* number of source symbols plus that seqno.
encode(e, seqno) ==
    IF e.src_left > 0
    THEN [enc |-> [e EXCEPT !.src_left = e.src_left - 1],
          id |-> e.symbols_count - e.src_left]
    ELSE [enc |-> e, id |-> e.symbols_count + seqno]

\* SendTransferState::set_seqno_sent
set_seqno_sent(st, seqno) ==
    IF st.seqno_sent < seqno THEN [st EXCEPT !.seqno_sent = seqno] ELSE st

\* SendTransfer::is_finished
is_finished(st, total) ==
    st.reply /\ (st.part + 1) * SLICE >= total

\* SendTransfer::is_finished_or_next_part: "yes", "no" or "fail"
is_finished_or_next_part(st, total, part) ==
    IF is_finished(st, total) THEN "yes"
    ELSE IF st.part = part THEN "no"
    ELSE IF st.part = part + 1 THEN "yes"
    ELSE "fail"

\* SendTransfer::prepare_chunk. The window test subtracts two u32: when the
\* packet id is below seqno_recv the subtraction overflows, which wraps in
\* a build without overflow checks and panics in a build with them.
prepare_chunk(st, e, ev) ==
    LET c == encode(e, st.seqno_sent)
        overflow == c.id < st.seqno_recv
        diff == (c.id - st.seqno_recv) % U32
        next == IF c.id = st.seqno_sent THEN c.id + 1 ELSE c.id
    IN  [st |-> IF diff <= WINDOW THEN set_seqno_sent(st, next) ELSE st,
         enc |-> c.enc,
         overflow |-> overflow,
         id |-> c.id,
         msg |-> MessagePart("raptorq", ev.data_size, ev.symbols_count,
                             ev.part, ev.total_size, c.id,
                             Symbol(ev.part, c.id))]

\* SendTransfer::start_next_part: ret = 0 when there is nothing to send
start_next_part(st, e, ev, total) ==
    IF is_finished(st, total) \/ st.part * SLICE >= total
    THEN [enc |-> e, env |-> ev, ret |-> 0]
    ELSE LET ne == with_data(SliceSize(total, st.part))
         IN  [enc |-> ne,
              env |-> [part |-> st.part, total_size |-> total,
                       data_size |-> ne.data_size,
                       symbols_count |-> ne.symbols_count],
              ret |-> ne.symbols_count]

\* send_loop: position, the locals part, transfer_wave and recv_seqno, the
\* packets sent in the current wave, and how the loop ended.
SendLoop_new == [pc |-> "start", part |-> 0, wave |-> 0, sent |-> 0,
                 recv_seqno |-> 0, result |-> "none"]

\* send_loop, lines 877-881: start_next_part, break on 0
SL_start ==
    /\ sl.pc = "start"
    /\ LET r == start_next_part(send, enc, env, msgLen)
       IN  /\ enc' = r.enc
           /\ env' = r.env
           /\ sl' = IF r.ret = 0
                    THEN [sl EXCEPT !.pc = "done", !.result = "ok"]
                    ELSE [sl EXCEPT !.pc = "part",
                                    !.wave = Min(r.ret, SIZE_TRANSFER_WAVE)]
    /\ UNCHANGED <<auxVars, regVars, admVars, msgLen, recvVars, send, hs, wireVars>>

\* send_loop, lines 882-884: the loop's own reading of the current part
SL_part ==
    /\ sl.pc = "part"
    /\ sl' = [sl EXCEPT !.pc = "send", !.part = send.part, !.sent = 0,
                        !.recv_seqno = 0]
    /\ UNCHANGED <<auxVars, regVars, admVars, msgLen, recvVars, send, enc, env, hs, wireVars>>

\* send_loop, lines 887-890: prepare_chunk and send_custom. `keep` says
\* whether the transport carries the datagram on, `n` is what the transport
\* has counted after it.
SL_send(keep, n) ==
    /\ sl.pc = "send"
    /\ nsent' = n
    /\ LET r == prepare_chunk(send, enc, env)
       IN  /\ r.id <= MaxSeqno
           /\ \/ /\ send' = r.st
                 /\ enc' = r.enc
                 /\ net' = IF keep THEN net \cup {r.msg} ELSE net
                 /\ sl' = [sl EXCEPT !.pc = "check", !.sent = sl.sent + 1]
              \/ /\ r.overflow
                 /\ sl' = [sl EXCEPT !.pc = "done", !.result = "panic"]
                 /\ UNCHANGED <<send, enc, net>>
    /\ UNCHANGED <<auxVars, regVars, admVars, msgLen, recvVars, env, hs, replies>>

\* send_loop, lines 891-894: after a packet, finished or next part?
SL_check ==
    /\ sl.pc = "check"
    /\ LET r == is_finished_or_next_part(send, msgLen, sl.part)
       IN  sl' = IF r = "fail"
                 THEN [sl EXCEPT !.pc = "done", !.result = "error"]
                 ELSE IF r = "yes" THEN [sl EXCEPT !.pc = "start"]
                 ELSE IF sl.sent < sl.wave THEN [sl EXCEPT !.pc = "send"]
                 ELSE [sl EXCEPT !.pc = "sleep"]
    /\ UNCHANGED <<auxVars, regVars, admVars, msgLen, recvVars, send, enc, env, hs, wireVars>>

\* send_loop, lines 895-913: after the sleep; `late` says whether the
\* clock of the part has run past the timeout, `clock` what it can say.
SL_wake(clock) ==
    /\ sl.pc = "sleep"
    /\ \E late \in clock :
        LET r == is_finished_or_next_part(send, msgLen, sl.part)
        IN  sl' = IF r = "fail"
                  THEN [sl EXCEPT !.pc = "done", !.result = "error"]
                  ELSE IF r = "yes" THEN [sl EXCEPT !.pc = "start"]
                  ELSE IF send.seqno_recv > sl.recv_seqno
                  THEN [sl EXCEPT !.pc = "send", !.sent = 0,
                                  !.recv_seqno = send.seqno_recv]
                  ELSE IF late
                  THEN [sl EXCEPT !.pc = "done", !.result = "timeout"]
                  ELSE [sl EXCEPT !.pc = "send", !.sent = 0]
    /\ UNCHANGED <<auxVars, regVars, admVars, msgLen, recvVars, send, enc, env, hs, wireVars>>

\* A set_part that stores the part without comparing.
set_part_store(st, part) == [st EXCEPT !.part = part]

\* SendTransferState::set_part: compare_exchange(part - 1, part) on u32
set_part(st, part) ==
    IF st.part = (part - 1) % U32 THEN [st EXCEPT !.part = part] ELSE st

\* try_consume_custom, Complete branch, on a Send entry
OnComplete(part) ==
    /\ send' = set_part(send, (part + 1) % U32)
    /\ UNCHANGED <<auxVars, regVars, admVars, msgLen, recvVars, enc, env, sl, hs, wireVars>>

\* A dispatcher invocation in the Confirm branch: where it is in
\* set_seqno_recv, the Confirm's seqno and the seqno_recv it loaded.
Idle == [pc |-> "idle", seqno |-> 0, loaded |-> 0]

\* try_consume_custom, Confirm branch, line 954: transfer.part() == msg.part
OnConfirm(h, part, seqno) ==
    /\ hs[h].pc = "idle"
    /\ hs' = [hs EXCEPT ![h] = IF send.part = part
                                THEN [pc |-> "sent", seqno |-> seqno,
                                      loaded |-> 0]
                                ELSE Idle]
    /\ UNCHANGED <<auxVars, regVars, admVars, msgLen, recvVars, send, enc, env, sl, wireVars>>

\* A set_seqno_recv that takes any seqno, whatever was sent.
set_seqno_recv_guard_any(st, seqno) == TRUE

\* set_seqno_recv, line 402: if self.seqno_sent() >= seqno
set_seqno_recv_guard(st, seqno) == st.seqno_sent >= seqno

\* A test that takes any seqno, whatever was received before.
seqno_recv_below_any(st, seqno) == TRUE

\* set_seqno_recv, line 404: if seqno_recv < seqno
seqno_recv_below(st, seqno) == st.seqno_recv < seqno

\* SendTransferState::set_seqno_recv, run without interruption
set_seqno_recv(st, seqno) ==
    IF set_seqno_recv_guard(st, seqno) /\ seqno_recv_below(st, seqno)
    THEN [st EXCEPT !.seqno_recv = seqno]
    ELSE st

SSR_sent(h) ==
    /\ hs[h].pc = "sent"
    /\ hs' = [hs EXCEPT ![h] = IF set_seqno_recv_guard(send, hs[h].seqno)
                                THEN [@ EXCEPT !.pc = "recv"]
                                ELSE Idle]
    /\ UNCHANGED <<auxVars, regVars, admVars, msgLen, recvVars, send, enc, env, sl, wireVars>>

\* set_seqno_recv, lines 403-404: load seqno_recv, if seqno_recv < seqno
SSR_recv(h) ==
    /\ hs[h].pc = "recv"
    /\ hs' = [hs EXCEPT ![h] = IF seqno_recv_below(send, hs[h].seqno)
                                THEN [@ EXCEPT !.pc = "cas",
                                               !.loaded = send.seqno_recv]
                                ELSE Idle]
    /\ UNCHANGED <<auxVars, regVars, admVars, msgLen, recvVars, send, enc, env, sl, wireVars>>

\* set_seqno_recv, lines 405-410: compare_exchange(seqno_recv, seqno)
SSR_cas(h) ==
    /\ hs[h].pc = "cas"
    /\ send' = IF send.seqno_recv = hs[h].loaded
               THEN [send EXCEPT !.seqno_recv = hs[h].seqno]
               ELSE send
    /\ hs' = [hs EXCEPT ![h] = Idle]
    /\ UNCHANGED <<auxVars, regVars, admVars, msgLen, recvVars, enc, env, sl, wireVars>>

\* receive_loop, lines 839-841, of the paired receive transfer: set_reply
SetReply ==
    /\ ~send.reply
    /\ send' = [send EXCEPT !.reply = TRUE]
    /\ UNCHANGED <<auxVars, regVars, admVars, msgLen, recvVars, enc, env, sl, hs, wireVars>>

InitSender ==
    /\ send = SendTransferState_new
    /\ enc = NoEncoder
    /\ env = Envelope_new
    /\ sl = SendLoop_new
    /\ hs = [h \in Handlers |-> Idle]

InitWire == net = {} /\ replies = {} /\ nsent = 0

InitReceiver == recv = RecvTransfer_new /\ lastOut = NoOut

\* ============================================================ SpecSend
\* A send transfer whose peer answers with any Confirm and Complete.
InitSend ==
    /\ msgLen \in (MaxLen - 1)..MaxLen
    /\ InitSender /\ InitReceiver /\ InitWire /\ InitAdmission
    /\ InitRegistry /\ InitIds

PeerComplete == \E p \in 0..MaxPart : OnComplete(p)
PeerConfirm ==
    \E h \in Handlers, p \in 0..MaxPart, s \in 0..MaxSeqno :
        OnConfirm(h, p, s)
ConfirmLoadSent == \E h \in Handlers : SSR_sent(h)
ConfirmLoadRecv == \E h \in Handlers : SSR_recv(h)
ConfirmCas == \E h \in Handlers : SSR_cas(h)

NextSend ==
    \/ SL_start \/ SL_part \/ SL_send(FALSE, nsent) \/ SL_check
    \/ SL_wake(BOOLEAN)
    \/ PeerComplete \/ PeerConfirm
    \/ ConfirmLoadSent \/ ConfirmLoadRecv \/ ConfirmCas
    \/ SetReply

SpecSend == InitSend /\ [][NextSend]_vars

\* C3: in every reachable state of a send transfer seqno_sent >= seqno_recv,
\* whatever Confirms the dispatcher handles while the send loop runs
\* prepare_chunk, and in every part of the message.
C3_SentNotBelowRecv == send.seqno_sent >= send.seqno_recv

\* A Confirm is about to be applied in a later part of the message, after
\* an earlier Confirm has been applied, while the send loop is sending.
C3_Witness ==
    /\ send.part >= 1
    /\ send.seqno_recv >= 1
    /\ sl.pc = "send"
    /\ \E h \in Handlers : hs[h].pc = "cas" /\ hs[h].seqno > send.seqno_recv

\* ============================================================ SpecXfer
\* One send transfer and the receive transfer of its peer, over a transport
\* that loses, reorders and duplicates datagrams: a datagram handed to the
\* transport can be delivered any number of times, in any order.
InitXfer ==
    /\ msgLen \in 1..MaxLen
    /\ InitSender /\ InitReceiver /\ InitWire /\ InitAdmission
    /\ InitRegistry /\ InitIds

\* receive_loop, lines 851-860: the loop ends when total_size == data.len()
RecvDone == recv.total_size = Len(recv.data)

\* try_consume_custom on a Recv entry and receive_loop, lines 827-838: the
\* packet is queued, process_chunk runs on it and its reply is sent.
Deliver ==
    /\ ~RecvDone
    /\ \E m \in net :
        LET o == process_chunk(msgLen, recv, m)
        IN  /\ recv' = o.st
            /\ replies' = IF o.reply.kind = "none" THEN replies
                          ELSE replies \cup {o.reply}
    /\ UNCHANGED <<auxVars, regVars, admVars, msgLen, lastOut, sendVars, net, nsent>>

\* try_consume_custom, lines 966-981: a MessagePart of a transfer whose
\* entry is Done is answered with a Confirm and a Complete.
DeliverClosed ==
    /\ RecvDone
    /\ \E m \in net :
        replies' = replies \cup {Confirm(m.part, m.seqno), Complete(m.part)}
    /\ UNCHANGED <<auxVars, regVars, admVars, msgLen, recvVars, sendVars, net, nsent>>

\* try_consume_custom on the sender's side: the peer's replies
GetComplete == \E r \in replies : r.kind = "complete" /\ OnComplete(r.part)
GetConfirm ==
    \E r \in replies :
        /\ r.kind = "confirm"
        /\ send' = IF send.part = r.part THEN set_seqno_recv(send, r.seqno)
                   ELSE send
        /\ UNCHANGED <<auxVars, regVars, admVars, msgLen, recvVars, enc, env, sl, hs, wireVars>>

\* The peer starts to answer once it has the whole message.
GetReply == RecvDone /\ SetReply

NextXfer ==
    \/ SL_start \/ SL_part \/ SL_send(TRUE, nsent) \/ SL_check
    \/ SL_wake(BOOLEAN)
    \/ Deliver \/ DeliverClosed
    \/ GetComplete \/ GetConfirm
    \/ GetReply

SpecXfer == InitXfer /\ [][NextXfer]_vars

\* The message M of length n.
Message(n) == [i \in 1..n |-> i - 1]

\* C1: whenever the receive transfer reaches data.len() == total_size, its
\* data is the message the send transfer carries, unit for unit.
C1_ReceivedIsSent == RecvDone => recv.data = Message(msgLen)

\* =========================================================== SpecLossy
\* One send transfer and the receive transfer of its peer over a transport
\* that drops every LossPeriod-th MessagePart, holds up to MaxInFlight of
\* the others and delivers each of them once, in any order; the clock of
\* the send loop never runs past the timeout.
InitLossy ==
    /\ msgLen \in (MaxLen - 1)..MaxLen
    /\ InitSender /\ InitReceiver /\ InitWire /\ InitAdmission
    /\ InitRegistry /\ InitIds

\* send_loop, lines 887-890, over the lossy transport: send_custom goes
\* through when the transport has room for the datagram.
LossySend ==
    /\ Cardinality(net) < MaxInFlight
    /\ SL_send(nsent # LossPeriod - 1, (nsent + 1) % LossPeriod)

\* try_consume_custom, MessagePart branch, and receive_loop: the datagram m
\* reaches the receive transfer, or the Done entry once the loop has ended.
LossyDeliver(m) ==
    /\ m \in net
    /\ net' = net \ {m}
    /\ IF RecvDone
       THEN /\ replies' = replies \cup {Confirm(m.part, m.seqno),
                                        Complete(m.part)}
            /\ recv' = recv
       ELSE LET o == process_chunk(msgLen, recv, m)
            IN  /\ recv' = o.st
                /\ replies' = IF o.reply.kind = "none" THEN replies
                              ELSE replies \cup {o.reply}
    /\ UNCHANGED <<auxVars, regVars, admVars, msgLen, lastOut, sendVars, nsent>>

\* try_consume_custom, Complete and Confirm branches: the reply r reaches
\* the send transfer.
LossyReply(r) ==
    /\ r \in replies
    /\ replies' = replies \ {r}
    /\ send' = IF r.kind = "complete" THEN set_part(send, (r.part + 1) % U32)
               ELSE IF send.part = r.part THEN set_seqno_recv(send, r.seqno)
               ELSE send
    /\ UNCHANGED <<auxVars, regVars, admVars, msgLen, recvVars, enc, env, sl, hs, net, nsent>>

\* The MessageParts a send transfer can hand to the transport.
SenderPackets ==
    {MessagePart("raptorq", SliceSize(t, p), SymbolsOf(SliceSize(t, p)), p, t,
                 id, Symbol(p, id)) :
        t \in (MaxLen - 1)..MaxLen, p \in 0..(MaxLen \div SLICE),
        id \in 0..MaxSeqno}

\* The replies a receive transfer and the dispatcher can send.
ReceiverReplies ==
    {Complete(p) : p \in 0..(MaxLen \div SLICE)}
    \cup {Confirm(p, id) : p \in 0..(MaxLen \div SLICE), id \in 0..MaxSeqno}

NextLossy ==
    \/ SL_start \/ SL_part \/ LossySend \/ SL_check \/ SL_wake({FALSE})
    \/ \E m \in SenderPackets : LossyDeliver(m)
    \/ \E r \in ReceiverReplies : LossyReply(r)
    \/ GetReply

SpecLossy == InitLossy /\ [][NextLossy]_vars

\* The send loop and the dispatcher keep running, and the transport
\* delivers every datagram it did not drop.
SpecLossyFair ==
    /\ SpecLossy
    /\ WF_vars(SL_start) /\ WF_vars(SL_part) /\ WF_vars(LossySend)
    /\ WF_vars(SL_check) /\ WF_vars(SL_wake({FALSE}))
    /\ \A m \in SenderPackets : WF_vars(LossyDeliver(m))
    /\ \A r \in ReceiverReplies : WF_vars(LossyReply(r))
    /\ WF_vars(GetReply)

\* C6: over the transport that drops every LossPeriod-th MessagePart, the
\* receive transfer eventually holds the whole message and the send loop
\* eventually returns success.
C6_LossyTransferCompletes == <>(RecvDone /\ sl.result = "ok")

\* ============================================================ SpecRecv
\* A receive transfer fed any sequence of packets.
InitRecv ==
    /\ msgLen = MaxLen
    /\ InitSender /\ InitReceiver /\ InitWire /\ InitAdmission
    /\ InitRegistry /\ InitIds

\* process_chunk passed the symbol of m to the decoder (lines 126-147),
\* which did not complete the slice with it.
pending(r, m, o) ==
    /\ m.fec = "raptorq" /\ total_size_ok(r, m)
    /\ r.decoder.present
       => /\ r.part = m.part
          /\ m.data_size = r.decoder.data_size
          /\ m.symbols_count = r.decoder.symbols_count
    /\ o.err = Ok /\ o.reply.kind # "complete"

RecvChunk ==
    \E m \in AnyPacket :
        LET o == process_chunk(msgLen, recv, m)
        IN  /\ recv' = o.st
            /\ lastOut' = [err |-> o.err, reply |-> o.reply]
            /\ send' = [send EXCEPT !.reply = TRUE]
            /\ seen' = IF o.st.part # recv.part THEN 0
                       ELSE IF pending(recv, m, o) THEN seen + 1
                       ELSE seen
            /\ seen' <= MaxSeen
            /\ UNCHANGED <<regVars, admVars, msgLen, enc, env, sl, hs, wireVars>>
                /\ UNCHANGED <<tid, dp, owner>>

NextRecv == RecvChunk

SpecRecv == InitRecv /\ [][NextRecv]_vars

\* C2: over any sequence of process_chunk calls, total_size never changes
\* once the first packet has set it, a packet with another total_size is
\* rejected (an error, and the transfer as it was), data.len() <= total_size,
\* and part never decreases.
C2_RecvTransferInvariants ==
    [][ /\ recv.total_size # NoSize => recv'.total_size = recv.total_size
        /\ \A m \in AnyPacket :
              (recv.total_size # NoSize /\ m.total_size # recv.total_size)
              => LET o == process_chunk(msgLen, recv, m)
                 IN  o.err \notin {Ok} /\ o.reply = NoReply /\ o.st = recv
        /\ IF recv'.total_size = NoSize THEN recv'.data = <<>>
           ELSE Len(recv'.data) <= recv'.total_size
        /\ recv'.part >= recv.part ]_vars

\* A packet with another total_size was rejected by a transfer that has
\* already decoded a slice, and not the last one.
C2_Witness ==
    /\ recv.part >= 1
    /\ Len(recv.data) >= 1
    /\ lastOut.err = BadTotal

\* ------------------------------------------------- per-peer admission
\* A gate that lets one call too many through.
must_wait_late(prior) == prior > MAX_QUERIES

\* query_transfer, line 657: the call has to wait
must_wait(prior) == prior >= MAX_QUERIES

\* An exit that releases a waiter only from two calls above the limit.
must_release_late(prior) == prior > MAX_QUERIES + 1

\* query_transfer, line 712: the call has to release a waiter
must_release(prior) == prior > MAX_QUERIES

\* query_transfer, line 656: queries.fetch_add(1), then the gate
Enter(i) ==
    /\ adm[i].pc = "enter"
    /\ queries' = queries + 1
    /\ adm' = [adm EXCEPT ![i] = IF must_wait(queries)
                                 THEN [@ EXCEPT !.pc = "push", !.waited = TRUE]
                                 ELSE [@ EXCEPT !.pc = "admitted"]]
    /\ UNCHANGED <<auxVars, regVars, xferVars, queue, barrier>>

\* query_transfer, lines 658-659: the rendezvous of two is queued
Push(i) ==
    /\ adm[i].pc = "push"
    /\ queue' = Append(queue, i)
    /\ adm' = [adm EXCEPT ![i].pc = "ping"]
    /\ UNCHANGED <<auxVars, regVars, xferVars, queries, barrier>>

\* Barrier::wait on the rendezvous b: the call arrives, and goes on at once
\* when it is the second to arrive; `on` is where it goes on, `at` where it
\* waits for the other.
Arrive(i, b, from, at, on) ==
    /\ adm[i].pc = from
    /\ barrier' = [barrier EXCEPT ![b] = @ + 1]
    /\ adm' = [adm EXCEPT ![i].pc = IF barrier[b] + 1 = 2 THEN on ELSE at]
    /\ UNCHANGED <<auxVars, regVars, xferVars, queries, queue>>

\* Barrier::wait returns to the first arrival once the second has arrived.
Leave(i, b, at, on) ==
    /\ adm[i].pc = at
    /\ barrier[b] = 2
    /\ adm' = [adm EXCEPT ![i].pc = on]
    /\ UNCHANGED <<auxVars, regVars, xferVars, queries, queue, barrier>>

\* query_transfer, line 660: ping.wait()
Ping(i) ==
    \/ Arrive(i, i, "ping", "pinged", "admitted")
    \/ Leave(i, i, "pinged", "admitted")

\* query_transfer, lines 663-711: the transfers of the call run and end,
\* then queries.fetch_sub(1)
Finish(i) ==
    /\ adm[i].pc = "admitted"
    /\ queries' = queries - 1
    /\ adm' = [adm EXCEPT ![i].pc = IF must_release(queries) THEN "pop"
                                    ELSE "done"]
    /\ UNCHANGED <<auxVars, regVars, xferVars, queue, barrier>>

\* query_transfer, lines 713-719: pop a waiter, or yield and try again
Pop(i) ==
    /\ adm[i].pc = "pop"
    /\ IF queue # <<>>
       THEN /\ queue' = Tail(queue)
            /\ adm' = [adm EXCEPT ![i].pc = "pong", ![i].popped = Head(queue)]
       ELSE UNCHANGED <<queue, adm>>
    /\ UNCHANGED <<auxVars, regVars, xferVars, queries, barrier>>

\* query_transfer, line 715: pong.wait()
Pong(i) ==
    \/ Arrive(i, adm[i].popped, "pong", "ponged", "done")
    \/ Leave(i, adm[i].popped, "ponged", "done")

\* ============================================================= SpecAdm
\* NQueries concurrent calls of query for the same peer.
InitAdm ==
    /\ InitAdmission /\ msgLen = MaxLen /\ InitSender /\ InitReceiver
    /\ InitWire /\ InitRegistry /\ InitIds

QueryStep(i) == Enter(i) \/ Push(i) \/ Ping(i) \/ Finish(i) \/ Pop(i) \/ Pong(i)

NextAdm ==
    \/ \E i \in Queries : Enter(i)
    \/ \E i \in Queries : Push(i)
    \/ \E i \in Queries : Ping(i)
    \/ \E i \in Queries : Finish(i)
    \/ \E i \in Queries : Pop(i)
    \/ \E i \in Queries : Pong(i)

SpecAdm == InitAdm /\ [][NextAdm]_vars

\* Every call is scheduled again and again, and the transfers of an
\* admitted call end.
SpecAdmFair == SpecAdm /\ \A i \in Queries : WF_vars(QueryStep(i))

Admitted == {i \in Queries : adm[i].pc = "admitted"}

\* C4: the calls that are past the gate and have not yet given admission
\* back (fetch_sub) are never more than MAX_QUERIES.
C4_AtMostMaxQueriesAdmitted == Cardinality(Admitted) <= MAX_QUERIES

\* MAX_QUERIES calls are past the gate, one of them let in by a call that
\* has left, while another call waits at the gate.
C4_Witness ==
    /\ Cardinality(Admitted) = MAX_QUERIES
    /\ \E i \in Admitted : adm[i].waited
    /\ \E i \in Queries : adm[i].pc = "pinged"

AllDone == \A i \in Queries : adm[i].pc = "done"

\* C5: with more calls than MAX_QUERIES, all of them complete, no call is
\* left spinning for a waiter or waiting at the gate, the counter is back
\* at 0, and every call that waited was released by exactly one leaving
\* call.
C5_AllQueriesComplete ==
    <>[](/\ AllDone
         /\ queries = 0
         /\ queue = <<>>
         /\ \A i \in Queries :
               adm[i].waited
               => Cardinality({j \in Queries : adm[j].popped = i}) = 1)

\* All calls are done and two of them had to wait.
C5_Witness ==
    /\ AllDone
    /\ Cardinality({i \in Queries : adm[i].waited}) >= 2


\* ================================================ the registry: actions
\* RldpNode::calc_timeout
calc_timeout(roundtrip) ==
    Max(IF roundtrip = NoHint THEN TIMEOUT_MAX ELSE roundtrip, TIMEOUT_MIN)

\* RldpNode::is_timed_out, on start.elapsed()
is_timed_out(timeout, updates, elapsed) ==
    elapsed > timeout + (timeout * updates) \div 100

\* RldpNode::update_roundtrip: the new roundtrip
update_roundtrip(roundtrip, elapsed) ==
    IF roundtrip = 0 THEN elapsed ELSE (roundtrip + elapsed) \div 2

\* send_loop, lines 874-875 and 883: timeout, roundtrip and start_part
send_loop_new(hint) ==
    Phase(calc_timeout(hint), IF hint = NoHint THEN 0 ELSE hint, now)

\* send_loop, lines 899-910, and query_transfer_loop, lines 787-797: the
\* peer has made the transfer progress since the last wake-up
send_loop_update(ph) ==
    LET r == update_roundtrip(ph.roundtrip, now - ph.since)
    IN  [timeout |-> calc_timeout(r), roundtrip |-> r, since |-> now,
         updates |-> ph.updates + 1]

\* send_loop, line 911, and query_transfer_loop, line 798
send_loop_timed_out(ph) == is_timed_out(ph.timeout, ph.updates, now - ph.since)

\* DashMap::insert: a Recv or Send entry is a new transfer, Done closes the
\* transfer that is there.
insert(r, id, kind) ==
    [r EXCEPT ![id] = Entry(kind, IF kind = "Done" /\ @.kind # "none"
                                  THEN @.born ELSE now)]

\* DashMap::remove; NoId is the send id answer_transfer_loop did not return
remove(r, id) == IF id = NoId THEN r ELSE [r EXCEPT ![id] = Vacant]

\* The first k elements of a sequence, all of it when it is shorter.
Take(seq, k) == [i \in 1..Min(k, Len(seq)) |-> seq[i]]

\* A dispatcher that answers a closed transfer with the Confirm alone.
closed_replies_confirm_only(m) == <<Confirm(m.part, m.seqno)>>

\* try_consume_custom, lines 966-981: the replies for a closed transfer
closed_replies(m) == <<Confirm(m.part, m.seqno), Complete(m.part)>>

\* The receive loop that reads the queue of a transfer id is running.
receiving(id) ==
    \/ rt[id].pc = "recv"
    \/ id = Comp(QueryTransferId) /\ qs.rloop = "run"

\* The MessageParts the peer sends: a transfer id, a part and a seqno.
PartSeqnos == {<<0, 1>>, <<1, 0>>}
PartsOn(ids) ==
    {[id |-> id, part |-> ps[1], seqno |-> ps[2]] :
        id \in ids, ps \in PartSeqnos}
PeerParts == PartsOn(Ids)

\* try_consume_custom, MessagePart branch, with answer_transfer for an id
\* that has no entry; k is the number of send_custom calls the transport
\* accepts before it fails one.
DispatchPart(m, k) ==
    /\ m.id \in PeerIds \/ reg[m.id].kind # "none"
    /\ reg[m.id].kind \in {"Send", "Done"} \/ k = 2
    /\ disp' = IF reg[m.id].kind \in {"Send", "Done"}
               THEN Take(closed_replies(m), k) ELSE <<>>
    /\ CASE reg[m.id].kind = "Recv" ->
              /\ rq[m.id] < MaxQueue
              /\ rq' = IF receiving(m.id) THEN [rq EXCEPT ![m.id] = @ + 1]
                       ELSE rq
              /\ UNCHANGED <<reg, rt, ceil>>
         [] reg[m.id].kind \in {"Send", "Done"} ->
              UNCHANGED <<reg, rq, rt, ceil>>
         [] OTHER ->
              /\ rt[m.id].pc = "none" /\ ceil[m.id] = NoTimer
              /\ reg' = insert(reg, m.id, "Recv")
              /\ rt' = [rt EXCEPT ![m.id] = [NoTask EXCEPT !.pc = "recv"]]
              /\ ceil' = [ceil EXCEPT ![m.id] = now + TIMEOUT_MAX]
              /\ rq' = [rq EXCEPT ![m.id] = 1]
    /\ UNCHANGED <<auxVars, xferVars, admVars, now, qs>>

\* The parts a peer puts in a Complete: msg.part is an i32.
CompleteParts == {-1, 0, 1}

\* try_consume_custom, Complete branch: set_part(msg.part as u32 + 1) on
\* the state of a Send entry, nothing for any other entry or for none.
DispatchComplete(id, part) ==
    /\ send' = IF reg[id].kind = "Send"
               THEN set_part(send, ((part % U32) + 1) % U32)
               ELSE send
    /\ UNCHANGED <<auxVars, admVars, regVars, msgLen, recvVars, enc, env>>
    /\ UNCHANGED <<sl, hs, wireVars>>

\* receive_loop in the task of answer_transfer: one queued MessagePart;
\* `full` says whether it completed the message.
RecvStep(id, full) ==
    /\ rt[id].pc = "recv"
    /\ rq[id] > 0
    /\ rq' = [rq EXCEPT ![id] = @ - 1]
    /\ rt' = [rt EXCEPT ![id].pc = IF full THEN "closed" ELSE "recv",
                        ![id].full = full]
    /\ UNCHANGED <<auxVars, xferVars, admVars, now, reg, ceil, qs, disp>>

\* receive_loop, line 827: recv() returns None once the Recv entry, and
\* with it the last sender of the queue, is gone.
RecvClosed(id) ==
    /\ rt[id].pc = "recv"
    /\ rq[id] = 0
    /\ reg[id].kind # "Recv"
    /\ rt' = [rt EXCEPT ![id].pc = "closed"]
    /\ UNCHANGED <<auxVars, xferVars, admVars, now, reg, rq, ceil, qs, disp>>

\* receive_loop, lines 863-865, and answer_transfer, line 516
MarkDone(id) ==
    /\ rt[id].pc = "closed"
    /\ reg' = insert(reg, id, "Done")
    /\ rq' = [rq EXCEPT ![id] = 0]
    /\ rt' = [rt EXCEPT ![id].pc = "parse"]
    /\ UNCHANGED <<auxVars, xferVars, admVars, now, ceil, qs, disp>>

\* What Query::process_rldp returns: (true, Some(answer)), (true, None),
\* or anything else (no subscriber claimed the query, or an error).
Subscribers == {"answer", "claimed", "none"}

\* answer.data.len() of the subscriber's answer, and the max_answer_size a
\* Query can carry (an i64).
AnswerLens == 0..MaxAnswer
MaxAnswerSizes == -1..MaxAnswer

\* The modulus of usize (2^64), scaled to the integers of TLC.
USIZE == 2^30

\* `x as usize` of an i64: its two's complement.
as_usize(x) == x % USIZE

\* A processing of the query that sends the answer of a subscriber that
\* claimed the query without a reply.
answer_outcome_claimed_sends(full, sub, len, max) ==
    IF ~full \/ sub = "none" THEN "fail" ELSE "send"

\* answer_transfer_loop, lines 556-572: what becomes of the query; `full`
\* says whether the receive transfer assembled the whole Query.
answer_outcome(full, sub, len, max) ==
    IF ~full THEN "fail"
    ELSE IF sub = "none" THEN "fail"
    ELSE IF sub = "claimed" THEN "noreply"
    ELSE IF len > as_usize(max) THEN "fail"
    ELSE "send"

\* answer_transfer_loop, lines 556-591: the query is parsed and processed;
\* with an answer that passes the size test the Send entry of the answer
\* is inserted, otherwise (no reply, or an error) the task goes to its
\* sleep with no send id. `send` is the state of the answer's send transfer.
StartAnswer(id, sub, len, max) ==
    /\ rt[id].pc = "parse"
    /\ LET outcome == answer_outcome(rt[id].full, sub, len, max)
       IN  IF outcome = "send"
           THEN /\ reg' = insert(reg, Comp(id), "Send")
                /\ send' = SendTransferState_new
                /\ rt' = [rt EXCEPT ![id].pc = "answer",
                                    ![id].send_id = Comp(id),
                                    ![id].ph = send_loop_new(NoHint),
                                    ![id].outcome = outcome]
           ELSE /\ rt' = [rt EXCEPT ![id].pc = "grace",
                                    ![id].due = now + 2 * TIMEOUT_MAX,
                                    ![id].outcome = outcome]
                /\ UNCHANGED <<reg, send>>
    /\ UNCHANGED <<auxVars, admVars, msgLen, recvVars, enc, env, sl, hs>>
    /\ UNCHANGED <<wireVars, now, rq, ceil, qs, disp>>

\* send_loop of the answer, lines 899-910: the peer's Confirm or Complete
AnswerProgress(id) ==
    /\ rt[id].pc = "answer"
    /\ rt[id].ph.updates < MaxUpdates
    /\ rt' = [rt EXCEPT ![id].ph = send_loop_update(@)]
    /\ UNCHANGED <<auxVars, xferVars, admVars, now, reg, rq, ceil, qs, disp>>

\* answer_transfer_loop, lines 599-614, and answer_transfer, lines 518-528:
\* send_loop returns; on Ok, sent or timed out, the send id is returned, on
\* Err it is not.
AnswerEnd(id, err) ==
    /\ rt[id].pc = "answer"
    /\ rt' = [rt EXCEPT ![id].pc = "grace",
                        ![id].send_id = IF err THEN NoId ELSE @,
                        ![id].due = now + 2 * TIMEOUT_MAX]
    /\ UNCHANGED <<auxVars, xferVars, admVars, now, reg, rq, ceil, qs, disp>>

\* answer_transfer, lines 529-533: after the sleep of 2 * TIMEOUT_MAX
Remove(id) ==
    /\ rt[id].pc = "grace"
    /\ rt[id].due = now
    /\ reg' = remove(remove(reg, rt[id].send_id), id)
    /\ rt' = [rt EXCEPT ![id] = NoTask]
    /\ UNCHANGED <<auxVars, xferVars, admVars, now, rq, ceil, qs, disp>>

\* answer_transfer, lines 541-546: the ceiling task
Ceiling(id) ==
    /\ ceil[id] = now
    /\ reg' = insert(reg, id, "Done")
    /\ ceil' = [ceil EXCEPT ![id] = NoTimer]
    /\ UNCHANGED <<auxVars, xferVars, admVars, now, rq, rt, qs, disp>>


\* The roundtrip hints a caller passes to query.
RoundtripHints == {NoHint, 2 * TIMEOUT_MAX}

\* The payloads a peer can make the paired receive transfer assemble.
AnswerData == {<<>>, <<1, 2, 3, 4>>}
Payloads ==
    {Payload("answer", q, d) : q \in QueryIds, d \in AnswerData}
    \cup {Payload("query", QueryId, <<>>), Payload("junk", 0, <<>>)}

\* query_transfer, lines 656-684: the entries of a query are inserted and
\* query_transfer_loop spawns the receive loop and enters send_loop.
QueryStart(hint) ==
    /\ qs.pc = "idle"
    /\ reg[QueryTransferId].kind = "none"
    /\ reg[Comp(QueryTransferId)].kind = "none"
    /\ reg' = insert(insert(reg, QueryTransferId, "Send"),
                     Comp(QueryTransferId), "Recv")
    /\ qs' = [NoQuery EXCEPT !.pc = "send", !.rloop = "run",
                             !.ph = send_loop_new(hint)]
    /\ UNCHANGED <<auxVars, xferVars, admVars, now, rq, rt, ceil, disp>>

\* send_loop of the query, lines 899-910: the peer's Confirm or Complete
QuerySendProgress ==
    /\ qs.pc = "send"
    /\ qs.ph.updates < MaxUpdates
    /\ qs' = [qs EXCEPT !.ph = send_loop_update(@)]
    /\ UNCHANGED <<auxVars, xferVars, admVars, now, reg, rq, rt, ceil, disp>>

\* query_transfer_loop, lines 760-780: send_loop returns; the send id is
\* marked Done unless send_loop failed.
QuerySendEnd(how) ==
    /\ qs.pc = "send"
    /\ how = "timeout" => send_loop_timed_out(qs.ph)
    /\ reg' = IF how = "error" THEN reg
              ELSE insert(reg, QueryTransferId, "Done")
    /\ qs' = IF how = "ok"
             THEN LET r == update_roundtrip(qs.ph.roundtrip,
                                            now - qs.ph.since)
                  IN  [qs EXCEPT !.pc = "wait",
                                 !.ph = Phase(calc_timeout(r), r, now)]
             ELSE [qs EXCEPT !.pc = "close",
                             !.res = IF how = "error" THEN "err"
                                     ELSE "noanswer"]
    /\ UNCHANGED <<auxVars, xferVars, admVars, now, rq, rt, ceil, disp>>

\* receive_loop of the query: one queued MessagePart of the answer; `full`
\* says whether it completed the payload. While the call waits for the
\* answer, lines 784-797, the update restarts its clock.
QueryRecvStep(full) ==
    /\ qs.rloop = "run"
    /\ rq[Comp(QueryTransferId)] > 0
    /\ qs.pc = "wait" => qs.ph.updates < MaxUpdates \/ full
    /\ rq' = [rq EXCEPT ![Comp(QueryTransferId)] = @ - 1]
    /\ qs' = [qs EXCEPT !.rloop = IF full THEN "ended" ELSE "run",
                        !.ph = IF qs.pc = "wait" THEN send_loop_update(@)
                               ELSE @]
    /\ UNCHANGED <<auxVars, xferVars, admVars, now, reg, rt, ceil, disp>>

\* query_transfer_loop, lines 798-818: the wait ends with the reply of the
\* receive loop, or with no activity for the timeout.
QueryWaitEnd ==
    /\ qs.pc = "wait"
    /\ qs.rloop = "ended" \/ send_loop_timed_out(qs.ph)
    /\ qs' = [qs EXCEPT !.pc = "close",
                        !.res = IF qs.rloop = "ended" THEN "answer"
                                ELSE "noanswer"]
    /\ UNCHANGED <<auxVars, xferVars, admVars, now, reg, rq, rt, ceil, disp>>

\* An answer check that takes any query id.
query_id_any(answer_id, query_id) == TRUE

\* query_transfer, line 725: answer.query_id.0 != query_id
query_id_ok(answer_id, query_id) == answer_id = query_id

\* query_transfer, lines 721-744: what the call returns; `trace` says
\* whether trace logging is on, which indexes the first four bytes of the
\* answer.
query_result(res, payload, query_id, trace) ==
    IF res = "err" THEN Result("err", <<>>)
    ELSE IF res = "noanswer" THEN Result("noanswer", <<>>)
    ELSE IF payload.kind # "answer" THEN Result("err", <<>>)
    ELSE IF ~query_id_ok(payload.query_id, query_id) THEN Result("err", <<>>)
    ELSE IF trace /\ Len(payload.data) < 4 THEN Result("panic", <<>>)
    ELSE Result("some", payload.data)

\* query_transfer, lines 701-744: the entries are marked Done, their
\* removal is scheduled and the call returns; `payload` is what the
\* receive transfer has assembled when it has ended.
QueryClose(trace, payload) ==
    /\ qs.pc = "close"
    /\ reg' = insert(IF qs.res = "err"
                     THEN insert(reg, QueryTransferId, "Done") ELSE reg,
                     Comp(QueryTransferId), "Done")
    /\ rq' = [rq EXCEPT ![Comp(QueryTransferId)] = 0]
    /\ payload = NoPayload <=> qs.res # "answer"
    /\ qs' = [qs EXCEPT !.pc = "grace", !.rloop = "off",
                        !.due = now + 2 * TIMEOUT_MAX,
                        !.payload = payload,
                        !.result = query_result(qs.res, payload, QueryId,
                                                trace)]
    /\ UNCHANGED <<auxVars, xferVars, admVars, now, rt, ceil, disp>>

\* query_transfer, lines 705-709: after the sleep of 2 * TIMEOUT_MAX
QueryRemove ==
    /\ qs.pc = "grace"
    /\ qs.due = now
    /\ reg' = remove(remove(reg, QueryTransferId), Comp(QueryTransferId))
    /\ qs' = [qs EXCEPT !.pc = "done", !.due = NoTimer]
    /\ UNCHANGED <<auxVars, xferVars, admVars, now, rq, rt, ceil, disp>>

\* The clock advances by SPINNER once every timer that is due has fired
\* and every loop whose timeout has run out has seen it.
Tick ==
    /\ now < MaxTime
    /\ \A id \in Ids :
          /\ ceil[id] # now
          /\ rt[id].due # now
          /\ ~(rt[id].pc = "answer" /\ send_loop_timed_out(rt[id].ph))
    /\ qs.due # now
    /\ ~(qs.pc \in {"send", "wait"} /\ send_loop_timed_out(qs.ph))
    /\ now' = now + SPINNER
    /\ UNCHANGED <<auxVars, xferVars, admVars, reg, rq, rt, ceil, qs, disp>>

\* ============================================================= SpecReg
\* The registry of a node that answers: a peer that sends MessageParts on
\* the transfer id of its query and on the complement, the task and the
\* ceiling task of answer_transfer, and the clock.
InitReg ==
    /\ InitRegistry /\ InitIds /\ InitAdmission /\ msgLen = MaxLen
    /\ InitSender /\ InitReceiver /\ InitWire

NextReg ==
    \/ \E m \in PartsOn({1, 2}), k \in 0..2 : DispatchPart(m, k)
    \/ \E id \in {1, 2}, part \in CompleteParts : DispatchComplete(id, part)
    \/ \E id \in Ids, full \in BOOLEAN : RecvStep(id, full)
    \/ \E id \in Ids : RecvClosed(id)
    \/ \E id \in Ids : MarkDone(id)
    \/ \E id \in Ids, sub \in Subscribers, len \in AnswerLens,
          max \in MaxAnswerSizes : StartAnswer(id, sub, len, max)
    \/ \E id \in Ids : AnswerProgress(id)
    \/ \E id \in Ids, err \in BOOLEAN : AnswerEnd(id, err)
    \/ \E id \in Ids : Remove(id)
    \/ \E id \in Ids : Ceiling(id)
    \/ Tick

SpecReg == InitReg /\ [][NextReg]_vars

\* =========================================================== SpecQuery
\* The registry of a node that asks: one query call, a peer that sends
\* MessageParts on the two transfer ids of the call, and the clock.
NextQuery ==
    \/ \E m \in PartsOn({3, 4}), k \in 0..2 : DispatchPart(m, k)
    \/ \E hint \in RoundtripHints : QueryStart(hint)
    \/ QuerySendProgress
    \/ \E how \in {"ok", "timeout", "error"} : QuerySendEnd(how)
    \/ \E full \in BOOLEAN : QueryRecvStep(full)
    \/ QueryWaitEnd
    \/ \E trace \in BOOLEAN, payload \in Payloads \cup {NoPayload} :
          QueryClose(trace, payload)
    \/ QueryRemove
    \/ Tick

SpecQuery == InitReg /\ [][NextQuery]_vars

\* C7: a registry entry that is Done stays Done until it is removed, and
\* an entry is removed only when it is Done.
C7_RecvSendDoneRemoved ==
    [][\A id \in Ids :
          /\ reg[id].kind = "Done" => reg'[id].kind \in {"Done", "none"}
          /\ reg[id].kind \in {"Recv", "Send"} => reg'[id].kind # "none"]_vars

\* C8: a MessagePart whose transfer id has a Send or Done entry is
\* answered, over a transport that takes the datagrams, with one Confirm
\* and one Complete for its part and seqno, and the registry, the queues of
\* the receive transfers and the tasks stay as they are.
C8_ClosedTransferAnswered ==
    [][\A m \in PeerParts :
          (reg[m.id].kind \in {"Send", "Done"} /\ DispatchPart(m, 2))
          => /\ disp' = <<Confirm(m.part, m.seqno), Complete(m.part)>>
             /\ UNCHANGED <<reg, rq, rt, ceil, qs>>]_vars

\* A MessagePart on a closed transfer has been answered with both replies,
\* and the peer's transfer is Done, one SPINNER before the end of its grace
\* period, with the Send entry of its answer still in the registry.
C8_Witness ==
    /\ Len(disp) = 2
    /\ \E id \in PeerIds :
          /\ rt[id].pc = "grace"
          /\ reg[id].kind = "Done"
          /\ reg[Comp(id)].kind = "Send"
          /\ rt[id].due = now + SPINNER

\* C9: no registry entry is Recv or Send later than TIMEOUT_MAX, plus the
\* SPINNER of slack, after it was created.
C9_DoneWithinCeiling ==
    \A id \in Ids :
        reg[id].kind \in {"Recv", "Send"}
        => now - reg[id].born <= TIMEOUT_MAX + SPINNER

\* C10: the query call returns Some(data) only for an assembled Answer
\* with the query id of the call, and data is the data of that Answer; for
\* an Answer with another query id it fails.
C10_AnswerMatchesQuery ==
    /\ qs.result.kind = "some"
       => /\ qs.res = "answer"
          /\ qs.payload.kind = "answer"
          /\ qs.payload.query_id = QueryId
          /\ qs.result.data = qs.payload.data
    /\ (/\ qs.pc \in {"grace", "done"}
        /\ qs.res = "answer"
        /\ qs.payload.kind = "answer"
        /\ qs.payload.query_id # QueryId)
       => qs.result.kind = "err"

\* The call has returned the data of a matching Answer.
C10_Witness ==
    /\ qs.pc = "done"
    /\ qs.result.kind = "some"
    /\ Len(qs.result.data) = 4
    /\ qs.payload.query_id = QueryId


\* --------------------------------------------------------- transfer ids
Bytes == 0..255
TransferIds == [1..ID_BYTES -> Bytes]

\* Bit i of byte b, and a ^ b on bytes, bit by bit.
Bit(b, i) == (b \div 2^i) % 2

RECURSIVE xor_bits(_, _, _)
xor_bits(a, b, i) ==
    IF i > 7 THEN 0
    ELSE ((Bit(a, i) + Bit(b, i)) % 2) * 2^i + xor_bits(a, b, i + 1)

xor(a, b) == xor_bits(a, b, 0)

\* A complement that leaves the last byte of the id as it is.
complement_but_last(id) ==
    [i \in DOMAIN id |-> IF i = Len(id) THEN id[i] ELSE xor(id[i], 255)]

\* for byte in &mut id { *byte ^= 0xFF }
complement(id) == [i \in DOMAIN id |-> xor(id[i], 255)]

\* query_transfer: the send transfer draws a random id, the receive
\* transfer is registered under its complement.
QueryIdsMade ==
    /\ tid = NoIds
    /\ \E id \in TransferIds :
          tid' = [tid EXCEPT !.q_send = id, !.q_recv = complement(id)]
    /\ UNCHANGED <<xferVars, admVars, regVars, seen, dp, owner>>

\* The request's MessageParts carry the id of the querier's send transfer:
\* that is the transfer id of the responder's context.
RequestArrives ==
    /\ tid.q_send # NoTransferId
    /\ tid.a_ctx = NoTransferId
    /\ tid' = [tid EXCEPT !.a_ctx = tid.q_send]
    /\ UNCHANGED <<xferVars, admVars, regVars, seen, dp, owner>>

\* answer_transfer_loop: the answer is sent under the complement of the
\* context's transfer id.
AnswerIdMade ==
    /\ tid.a_ctx # NoTransferId
    /\ tid.a_send = NoTransferId
    /\ tid' = [tid EXCEPT !.a_send = complement(tid.a_ctx)]
    /\ UNCHANGED <<xferVars, admVars, regVars, seen, dp, owner>>

InitIdsSpec ==
    /\ InitSender /\ InitReceiver /\ InitWire /\ InitAdmission
    /\ InitRegistry /\ InitIds /\ msgLen = MaxLen

NextIds == QueryIdsMade \/ RequestArrives \/ AnswerIdMade

SpecIds == InitIdsSpec /\ [][NextIds]_vars

\* Every bit of every byte of b is the opposite of that bit of a.
IsComplement(a, b) ==
    /\ DOMAIN a = DOMAIN b
    /\ \A i \in DOMAIN a : \A j \in 0..7 : Bit(a[i], j) # Bit(b[i], j)

\* C11: the querier's receive transfer id is the bytewise complement of its
\* send transfer id, the responder sends the answer under the bytewise
\* complement of the request's transfer id, so the answer travels under the
\* id the querier registered its receive transfer under; complementing an
\* id twice gives the id.
C11_AnswerIdIsRecvId ==
    /\ tid.q_recv # NoTransferId => IsComplement(tid.q_send, tid.q_recv)
    /\ tid.a_send # NoTransferId
       => /\ IsComplement(tid.a_ctx, tid.a_send)
          /\ tid.a_send = tid.q_recv
          /\ tid.a_send # tid.q_send
    /\ tid.q_send # NoTransferId
       => complement(complement(tid.q_send)) = tid.q_send

\* The responder made the id of an answer to a request whose id has mixed
\* bits in its bytes.
C11_Witness ==
    /\ tid.a_send # NoTransferId
    /\ tid.q_send = <<165, 60>>

\* C12: on every terminal failure of the outbound query path (the send loop
\* timed out, no activity on the receive side, a transport send error inside
\* the send loop, an internal part mismatch) the query call returns
\* (None, roundtrip) rather than an error.
C12_FailureReturnsNone ==
    (qs.pc \in {"grace", "done"} /\ qs.res \in {"err", "noanswer"})
    => qs.result.kind = "noanswer"

\* C13: when a subscriber claims an inbound Query but returns no reply, the
\* responder registers no send transfer and sends no MessagePart of an
\* Answer for it, and the request's transfer id is marked Done.
C13_ClaimedWithoutReply ==
    [][\A id \in Ids :
        /\ \A len \in AnswerLens, max \in MaxAnswerSizes :
              (rt[id].full /\ StartAnswer(id, "claimed", len, max))
              => /\ reg' = reg
                 /\ reg[id].kind = "Done"
                 /\ rt'[id].outcome = "noreply"
        /\ rt'[id].outcome = "noreply"
           => /\ rt'[id].pc = "grace"
              /\ rt'[id].send_id = NoId
              /\ reg'[id].kind = "Done"
              /\ reg'[Comp(id)] = reg[Comp(id)]]_vars

\* The task of a request whose Query was claimed without a reply sleeps
\* before it removes the request's id.
C13_Witness ==
    \E id \in Ids :
        /\ rt[id].outcome = "noreply" /\ rt[id].full
        /\ rt[id].pc = "grace" /\ rt[id].due > now
        /\ reg[id].kind = "Done"

\* C14: the responder never transmits an Answer whose size exceeds the
\* max_answer_size of the Query it answers, whatever value the signed
\* field carries: for an answer larger than that no send transfer is
\* registered.
C14_AnswerWithinMaxSize ==
    [][\A id \in Ids, len \in AnswerLens, max \in MaxAnswerSizes :
          (len > max /\ StartAnswer(id, "answer", len, max))
          => (reg' = reg /\ rt'[id].send_id = NoId)]_vars

\* C17: within one part of a receive transfer a Confirm is emitted on the
\* 10th, 20th, ... accepted symbol that does not complete the slice and on
\* no other call, confirm_count stays in 0..9, and it restarts from 0 when
\* the transfer advances to the next part.
C17_ConfirmEveryTenth ==
    [][ /\ recv'.confirm_count \in 0..9
        /\ recv'.part # recv.part => recv'.confirm_count = 0
        /\ seen' = seen + 1
           => (lastOut'.reply.kind = "confirm" <=> seen' % 10 = 0)
        /\ seen' # seen + 1 => lastOut'.reply.kind # "confirm" ]_vars

\* The 20th pending symbol of the second part has just been confirmed.
C17_Witness ==
    /\ seen = 20 /\ recv.part = 1
    /\ lastOut.reply.kind = "confirm"

\* C15: in every state of a receive transfer with current part p, also
\* when no decoder exists for part p, process_chunk on a packet of the
\* transfer with msg.part < p returns a Complete for msg.part, on one with
\* msg.part > p it returns no reply, and in both cases it changes neither
\* data, part nor the decoder.
C15_OtherPartsLeaveTransfer ==
    \A m \in AnyPacket :
        (m.fec = "raptorq" /\ total_size_ok(recv, m) /\ m.part # recv.part)
        => LET o == process_chunk(msgLen, recv, m)
           IN  /\ o.err = Ok
               /\ o.st.data = recv.data
               /\ o.st.part = recv.part
               /\ o.st.decoder = recv.decoder
               /\ o.reply = IF m.part < recv.part THEN Complete(m.part)
                            ELSE NoReply

\* C16: a protocol error in process_chunk (unsupported FEC type, another
\* total_size, other FEC parameters, a slice that would exceed total_size)
\* aborts the receive transfer: the call after the failed one accepts no
\* packet, appends no data and emits no Confirm or Complete.
C16_ErrorAbortsTransfer ==
    [][lastOut.err \in {BadFec, BadTotal, BadParams, TooBig}
       => (recv' = recv /\ lastOut'.reply = NoReply)]_vars

\* The symbol ids the decoder of the current part has been given.
Observed == {s[1] : s \in recv.decoder.syms}

\* C18: a Confirm emitted by a receive transfer carries the highest symbol
\* id the receiver has observed so far in the part the Confirm names, in
\* whatever order the symbols arrived.
C18_ConfirmCarriesHighest ==
    lastOut.reply.kind = "confirm"
    => \A id \in Observed : id <= lastOut.reply.seqno

\* C19: when a receive transfer emits a Confirm with seqno = n for part p,
\* the receiver has observed at least n source-symbol ids of part p.
C19_ConfirmCountsSourceSymbols ==
    lastOut.reply.kind = "confirm"
    => Cardinality({id \in Observed : id < recv.decoder.symbols_count})
       >= lastOut.reply.seqno

\* C20: a Complete for part p handled by the dispatcher changes a send
\* transfer only when the entry is Send(s) and s.part = p, and then sets
\* s.part to p + 1 and nothing else; for any other s.part and for an entry
\* that is Recv, Done or absent the state is unchanged. So s.part never
\* decreases, and a Complete and its duplicates advance it by one at most.
C20_CompleteAdvancesByOne ==
    [][ /\ \A id \in {1, 2}, p \in CompleteParts :
              DispatchComplete(id, p)
              => IF reg[id].kind = "Send" /\ send.part = p
                 THEN send' = [send EXCEPT !.part = p + 1]
                 ELSE send' = send
        /\ rt' = rt => send'.part \in {send.part, send.part + 1} ]_vars

\* The peer's Completes have taken the answer's send transfer to part 2
\* while its entry is Send and the request's entry is Done.
C20_Witness ==
    /\ reg[2].kind = "Send" /\ reg[1].kind = "Done"
    /\ send.part = 2

\* C21: a Confirm for a part handled by the dispatcher touches a send
\* transfer only when the part it finds in the Send entry is the Confirm's
\* part, and then changes only seqno_recv: seqno_recv never decreases, a
\* new value is the Confirm's seqno and at most seqno_sent, and handling
\* the same Confirm again, or after a Confirm within seqno_sent one with a
\* smaller seqno, changes nothing; part, seqno_sent and the reply flag are
\* not changed by a Confirm.
C21_ConfirmAdvancesSeqnoRecv ==
    [][\A h \in Handlers :
        /\ (hs[h].pc = "idle" /\ hs'[h] # hs[h])
           => (send' = send /\ OnConfirm(h, send.part, hs'[h].seqno))
        /\ SSR_sent(h)
           => /\ send' = send
              /\ hs[h].seqno > send.seqno_sent => hs'[h] = Idle
        /\ SSR_recv(h)
           => /\ send' = send
              /\ hs[h].seqno <= send.seqno_recv => hs'[h] = Idle
        /\ SSR_cas(h)
           => /\ send' = [send EXCEPT !.seqno_recv = send'.seqno_recv]
              /\ send'.seqno_recv >= send.seqno_recv
              /\ hs[h].loaded # send.seqno_recv => send' = send
              /\ send' # send
                 => send'.seqno_recv = Min(send.seqno_sent, hs[h].seqno)
        /\ hs' = hs => send'.seqno_recv = send.seqno_recv ]_vars

\* One handler has applied a Confirm in a later part while the other,
\* which loaded seqno_recv before that, is about to try its exchange.
C21_Witness ==
    /\ send.part > 0 /\ send.seqno_recv > 0
    /\ hs[1].pc = "idle"
    /\ hs[2].pc = "cas" /\ hs[2].loaded < send.seqno_recv

\* C22: the reply flag of a querier's send transfer is set only after the
\* paired receive transfer has ingested payload (its data is not empty): a
\* first packet that process_chunk rejects, or accepts without completing
\* a slice, does not set it.
C22_ReplyAfterPayload == send.reply => Len(recv.data) > 0

\* C23: send_loop returns (true, rtt) only when every slice of the
\* message, the last one included, has been confirmed by a Complete of
\* the peer, which has advanced the part of the send state past it.
C23_SuccessAfterAllCompletes ==
    sl.result = "ok" => send.part * SLICE >= msgLen

\* C24: at the moment the send loop hands a MessagePart to the transport,
\* the packet's part is the current part of the send state and its
\* total_size is data.len(), whatever Completes the dispatcher applies to
\* the send state meanwhile.
C24_PacketOfCurrentPart ==
    [][(sl.pc = "send" /\ sl'.pc = "check")
       => (env.part = send.part /\ env.total_size = msgLen)]_vars

\* C25: when prepare_chunk produces a packet id s with
\* s - seqno_recv > WINDOW it leaves seqno_sent as it is, and with
\* seqno_recv unchanged the next prepare_chunk emits the same packet id,
\* for a source symbol as for a repair symbol.
C25_FullWindowRepeatsId ==
    sl.pc = "send"
    => LET r == prepare_chunk(send, enc, env)
           n == prepare_chunk(r.st, r.enc, env)
       IN  (r.id - send.seqno_recv) % U32 > WINDOW
           => (r.st.seqno_sent = send.seqno_sent /\ n.id = r.id)

\* C27: in every prepare_chunk call, in every part of the message, the
\* packet id s the encoder returns is at least seqno_recv, so the u32
\* subtraction s - seqno_recv of the window test does not wrap.
C27_WindowTestDoesNotWrap ==
    sl.pc = "send" => prepare_chunk(send, enc, env).id >= send.seqno_recv

\* ============================================================ SpecDisp
\* try_consume_custom, MessagePart branch, statement by statement, for
\* dispatcher invocations that run at the same time.

\* Lines 960-961: a MessagePart of a peer's transfer comes in from a peer.
D_start(d, from, m) ==
    /\ dp[d].pc = "idle"
    /\ rq[m.id] < MaxQueue
    /\ dp' = [dp EXCEPT ![d] = [pc |-> "get", m |-> m, from |-> from,
                                spins |-> 0]]
    /\ UNCHANGED <<tid, seen, owner, xferVars, admVars, regVars>>

\* Lines 963-989: self.transfers.get(transfer_id); a Recv entry takes the
\* packet in its queue, a Send or Done entry is answered with Confirm and
\* Complete (k is the number of send_custom calls the transport accepts
\* before it fails one), and with no entry the invocation goes on to
\* answer_transfer.
D_get(d, k) ==
    LET m == dp[d].m
        kind == reg[m.id].kind
    IN  /\ dp[d].pc = "get"
        /\ kind \in {"Send", "Done"} \/ k = 2
        /\ disp' = IF kind \in {"Send", "Done"}
                   THEN Take(closed_replies(m), k) ELSE <<>>
        /\ rq' = IF kind = "Recv" /\ receiving(m.id)
                 THEN [rq EXCEPT ![m.id] = @ + 1] ELSE rq
        /\ dp' = [dp EXCEPT ![d] = IF kind = "none"
                                   THEN [@ EXCEPT !.pc = "answer"]
                                   ELSE Resting]
        /\ UNCHANGED <<tid, seen, owner, xferVars, admVars>>
        /\ UNCHANGED <<now, reg, rt, ceil, qs>>

\* An entry() that takes every slot for vacant: an insert that overwrites.
entry_vacant_always(r, id) == TRUE

\* answer_transfer, lines 500-503: Entry::Vacant of self.transfers.entry
entry_vacant(r, id) == r[id].kind = "none"

\* Lines 990-994 with answer_transfer, lines 491-548: on a vacant slot the
\* Recv entry is inserted, the task and the ceiling task are spawned and
\* the packet is the first of the queue; on an occupied slot the
\* invocation takes `continue`.
D_answer(d) ==
    LET m == dp[d].m
    IN  /\ dp[d].pc = "answer"
        /\ IF entry_vacant(reg, m.id)
           THEN /\ reg' = insert(reg, m.id, "Recv")
                /\ rt' = [rt EXCEPT ![m.id] = [NoTask EXCEPT !.pc = "recv"]]
                /\ ceil' = [ceil EXCEPT ![m.id] = now + TIMEOUT_MAX]
                /\ rq' = [rq EXCEPT ![m.id] = 1]
                /\ owner' = [owner EXCEPT ![m.id] = dp[d].from]
                /\ dp' = [dp EXCEPT ![d] = Resting]
           ELSE /\ dp' = [dp EXCEPT ![d].pc = "get", ![d].spins = @ + 1]
                /\ UNCHANGED <<reg, rt, ceil, rq, owner>>
        /\ UNCHANGED <<tid, seen, xferVars, admVars, now, qs, disp>>

\* The registry of a node that answers, with two dispatcher invocations,
\* one for the packets of part 0 and one for those of part 1 of a peer. The
\* peer sends no Confirm for the answer: those move only the timeout of the
\* answer's send_loop, which SpecReg covers.
NextDisp ==
    \/ \E d \in Dispatchers, m \in PartsOn(PeerIds) :
          m.part = d - 1 /\ D_start(d, "A", m)
    \/ \E d \in Dispatchers, k \in 0..2 : D_get(d, k)
    \/ \E d \in Dispatchers : D_answer(d)
    \/ \E id \in PeerIds, full \in BOOLEAN : RecvStep(id, full)
    \/ \E id \in PeerIds : RecvClosed(id)
    \/ \E id \in PeerIds : MarkDone(id)
    \/ \E id \in PeerIds, sub \in Subscribers, len \in AnswerLens,
          max \in MaxAnswerSizes : StartAnswer(id, sub, len, max)
    \/ \E id \in PeerIds, err \in BOOLEAN : AnswerEnd(id, err)
    \/ \E id \in PeerIds : Remove(id)
    \/ \E id \in PeerIds : Ceiling(id)
    \/ Tick

\* A dispatcher invocation runs on: none of its statements waits.
FairDisp ==
    \A d \in Dispatchers :
        /\ WF_vars(\E k \in 0..2 : D_get(d, k))
        /\ WF_vars(D_answer(d))

SpecDisp == InitReg /\ [][NextDisp]_vars /\ FairDisp

C28_EntriesRemoved ==
    [][\A id \in PeerIds :
          (rt[id].pc = "grace" /\ rt'[id].pc = "none")
          => (reg'[id].kind = "none" /\ reg'[Comp(id)].kind = "none")]_vars

\* =========================================================== SpecPeers
\* The peers a transfer was opened with: those of the receive context made
\* for its id, and for the Send entry of an answer those of the request.
peers_of(id) == IF owner[id] # NoPeer THEN owner[id] ELSE owner[Comp(id)]

\* The peer whose MessageParts a dispatcher invocation handles.
PeerOf(d) == IF d = 1 THEN "A" ELSE "B"

\* try_consume_custom, lines 932-950: a Complete that the transport
\* delivers from a peer; `peers` is not read in the branch.
Complete_from(from, id, part) ==
    /\ from \in Peers
    /\ DispatchComplete(id, part)

\* The registry of a node that answers, with the datagrams of two peers.
NextPeers ==
    \/ \E d \in Dispatchers, m \in PartsOn(PeerIds) :
          m.part = d - 1 /\ D_start(d, PeerOf(d), m)
    \/ \E d \in Dispatchers, k \in 0..2 : D_get(d, k)
    \/ \E d \in Dispatchers : D_answer(d)
    \/ \E from \in Peers, id \in PeerIds, part \in CompleteParts :
          Complete_from(from, Comp(id), part)
    \/ \E id \in PeerIds, full \in BOOLEAN : RecvStep(id, full)
    \/ \E id \in PeerIds : RecvClosed(id)
    \/ \E id \in PeerIds : MarkDone(id)
    \/ \E id \in PeerIds, sub \in Subscribers, len \in AnswerLens,
          max \in MaxAnswerSizes : StartAnswer(id, sub, len, max)
    \/ \E id \in PeerIds, err \in BOOLEAN : AnswerEnd(id, err)
    \/ \E id \in PeerIds : Remove(id)
    \/ \E id \in PeerIds : Ceiling(id)
    \/ Tick

SpecPeers == InitReg /\ [][NextPeers]_vars

\* C29: a MessagePart or a Complete that carries the id of a transfer and
\* comes from a peer the transfer was not opened with leaves the receive
\* queues and the state of the send transfer as they are.
C29_OnlyOwnPeer ==
    [][/\ \A d \in Dispatchers :
             (/\ dp[d].pc = "get" /\ dp'[d].pc = "idle"
              /\ dp[d].from # peers_of(dp[d].m.id))
             => rq' = rq
       /\ \A from \in Peers, id \in PeerIds, part \in CompleteParts :
             (/\ Complete_from(from, Comp(id), part)
              /\ from # peers_of(Comp(id)))
             => send' = send]_vars

=============================================================================
